---- MODULE Spec2Model ----
(***************************************************************************)
(* JOOLA customer analytics: the data-processing utilities                 *)
(* (src/data_processing.py) and the what-if dashboard run (src/app.py).    *)
(*                                                                         *)
(* A DataFrame is a bag of rows: every operation modelled here groups,     *)
(* sorts or aggregates, so a result never depends on the position of a     *)
(* row in its input.  A missing number is NaN, a missing date NaT, a       *)
(* missing text cell NoText.  A mean is kept exact, as the pair            *)
(* [num, den] of the sum and the number of the values it averages; the     *)
(* mean of no values (NaN) is NaNMean.                                     *)
(***************************************************************************)
EXTENDS Bags, FiniteSets, Integers, Sequences, TLC

VARIABLES
    pc,       \* position of the call or of the dashboard run
    df,       \* the input table of the call
    args,     \* the other arguments of the call
    out,      \* what the call returned
    fs,       \* dashboard: which candidate artifact paths exist on disk
    cache,    \* dashboard: st.cache_resource / st.cache_data entries
    path,     \* dashboard: the local  path  of the load in progress
    pipe,     \* dashboard: main's local  pipe
    data,     \* dashboard: main's local  data
    screen,   \* dashboard: elements shown to the user in this run, in order
    col,      \* dashboard: index into FEATURE_COLS of the loop in progress
    feature_stats,  \* dashboard: the columns whose slider range is computed
    inputs,         \* dashboard: the columns whose input widget is rendered
    prob_churn,     \* dashboard: the result of predict_proba in this run
    not_found       \* dashboard: the loads of this run that hit
                    \* FileNotFoundError

appvars == <<fs, cache, path, pipe, data, screen, col, feature_stats, inputs,
             prob_churn, not_found>>

vars == <<pc, df, args, out, fs, cache, path, pipe, data, screen, col,
          feature_stats, inputs, prob_churn, not_found>>

\* Missing-value markers, outside the ranges of the values the model uses.
NaN == -999

NaT == -998

NoText == "nan"

NaNMean == [num |-> 0, den |-> 0]

\* ---------------------------------------------------------------- bounds

MaxRows == 3          \* rows of an order table

MaxCustomers == 3     \* rows of a customer table

TicksPerDay == 2      \* resolution of a timestamp: ticks in one day

MaxTime == 6          \* latest timestamp, in ticks

MaxChurnDays == 3     \* largest churn_days argument

MaxSegments == 3      \* largest n_segments argument

MaxTopN == 3          \* largest top_n argument

\* ------------------------------------------------------- generic helpers

Min(a, b) == IF a <= b THEN a ELSE b

SetMin(S) == CHOOSE x \in S : \A y \in S : x <= y

SetMax(S) == CHOOSE x \in S : \A y \in S : x >= y

RECURSIVE SeqSum(_)
SeqSum(s) == IF s = <<>> THEN 0 ELSE Head(s) + SeqSum(Tail(s))

\* len(df) of a table or group
NRows(t) == BagCardinality(t)

\* The dashboard's variables, untouched by the data-processing calls.
AppIdle ==
    /\ fs = <<>> /\ cache = <<>> /\ path = 0
    /\ pipe = "None" /\ data = "None"
    /\ screen = <<>> /\ col = 0
    /\ feature_stats = {} /\ inputs = {}
    /\ prob_churn = "unset" /\ not_found = {}

AppUnchanged == UNCHANGED appvars

\* ------------------------------------------------------------------------
\* create_customer_features
\* ------------------------------------------------------------------------

Emails == <<"a@x.com", "b@x.com">>       \* in sorted order

OrderIds == {"o1", "o2"}

OrderDates == {0, 2, 5}                  \* calendar days

Discounts == {0, 5}

OrderRows ==
    [email : {Emails[i] : i \in DOMAIN Emails} \cup {NoText},
     id : OrderIds,
     order_date : OrderDates \cup {NaT},
     discount_amount : Discounts]

\* df.groupby(email_col): the group keys, missing keys dropped, in sorted order
GroupKeys(t) ==
    LET present == {r.email : r \in DOMAIN t} \ {NoText}
        F[i \in 0..Len(Emails)] ==
            IF i = 0 THEN <<>>
            ELSE IF Emails[i] \in present THEN Append(F[i-1], Emails[i])
                 ELSE F[i-1]
    IN F[Len(Emails)]

\* the rows of one group
Group(t, e) == [r \in {x \in DOMAIN t : x.email = e} |-> t[r]]

\* (order_id_col, 'nunique')
NUnique(g) == Cardinality({r.id : r \in DOMAIN g})

\* (date_col, 'min') and (date_col, 'max'): missing dates are skipped
DateMin(g) ==
    LET ds == {r.order_date : r \in DOMAIN g} \ {NaT}
    IN IF ds = {} THEN NaT ELSE SetMin(ds)

DateMax(g) ==
    LET ds == {r.order_date : r \in DOMAIN g} \ {NaT}
    IN IF ds = {} THEN NaT ELSE SetMax(ds)

\* (discount_col, lambda x: (x > 0).sum()): one count per ROW of the group
RECURSIVE NDiscounts(_)
NDiscounts(g) ==
    IF DOMAIN g = {} THEN 0
    ELSE LET r == CHOOSE x \in DOMAIN g : TRUE
             rest == [x \in DOMAIN g \ {r} |-> g[x]]
         IN (IF r.discount_amount > 0 THEN g[r] ELSE 0) + NDiscounts(rest)

\* (discount_col, 'mean')
RECURSIVE DiscountSum(_)
DiscountSum(g) ==
    IF DOMAIN g = {} THEN 0
    ELSE LET r == CHOOSE x \in DOMAIN g : TRUE
             rest == [x \in DOMAIN g \ {r} |-> g[x]]
         IN r.discount_amount * g[r] + DiscountSum(rest)

AvgDiscount(g) == [num |-> DiscountSum(g), den |-> NRows(g)]

\* x.sort_values(): the dates of the group's rows ascending, missing ones last
RECURSIVE SortValues(_)
SortValues(g) ==
    IF DOMAIN g = {} THEN <<>>
    ELSE LET present == {r \in DOMAIN g : r.order_date # NaT}
             r == IF present # {}
                  THEN CHOOSE x \in present :
                          \A y \in present : x.order_date <= y.order_date
                  ELSE CHOOSE x \in DOMAIN g : TRUE
             rest == IF g[r] = 1 THEN [x \in DOMAIN g \ {r} |-> g[x]]
                     ELSE [g EXCEPT ![r] = @ - 1]
         IN <<r.order_date>> \o SortValues(rest)

\* .diff().dt.days: the first entry and every difference with a missing
\* operand are missing
Diff(s) ==
    [i \in DOMAIN s |->
        IF i = 1 \/ s[i] = NaT \/ s[i-1] = NaT THEN NaN ELSE s[i] - s[i-1]]

\* .mean(): missing entries skipped; missing when nothing is left
Mean(s) ==
    LET idx == {i \in DOMAIN s : s[i] # NaN}
        nums == [i \in DOMAIN s |-> IF s[i] = NaN THEN 0 ELSE s[i]]
    IN IF idx = {} THEN NaNMean
       ELSE [num |-> SeqSum(nums), den |-> Cardinality(idx)]

\* lambda x: x.sort_values().diff().dt.days.mean()
AvgGap(g) == Mean(Diff(SortValues(g)))

\* df.groupby(email_col).agg(...).reset_index() with the frequency alias.
\* The order table carries the columns email, id, order_date and
\* discount_amount; avg_spend, total_spend (and its alias monetary),
\* avg_items and marketing_optin are column-wise aggregates of the three
\* columns it does not carry (total, lineitem_quantity, accepts_marketing)
\* and are absent from the rows here.
CustomerAgg(t) ==
    LET keys == GroupKeys(t)
    IN [i \in DOMAIN keys |->
          LET g == Group(t, keys[i])
          IN [email |-> keys[i],
              n_orders |-> NUnique(g),
              first_purchase |-> DateMin(g),
              last_purchase |-> DateMax(g),
              n_discounts |-> NDiscounts(g),
              avg_discount |-> AvgDiscount(g),
              frequency |-> NUnique(g)]]

\* df.groupby(email_col)[date_col].apply(...).reset_index()
OrderDatesTable(t) ==
    LET keys == GroupKeys(t)
    IN [i \in DOMAIN keys |->
          [email |-> keys[i], avg_gap_days |-> AvgGap(Group(t, keys[i]))]]

\* (mutant) how='inner' against a right table that lost its missing values
RECURSIVE MergeInnerDropNa(_, _)
MergeInnerDropNa(left, right) ==
    IF left = <<>> THEN <<>>
    ELSE LET l == Head(left)
             hits == SelectSeq(right, LAMBDA r : r.email = l.email
                                                 /\ r.avg_gap_days # NaNMean)
             rows == [j \in DOMAIN hits |->
                        [f \in DOMAIN l \cup {"avg_gap_days"} |->
                           IF f = "avg_gap_days" THEN hits[j].avg_gap_days
                           ELSE l[f]]]
         IN rows \o MergeInnerDropNa(Tail(left), right)

\* left.merge(right, on=email_col, how='left'): one output row per pair of a
\* left row and a right row with the same key, in left order; a left row
\* without a partner is kept with a missing value
RECURSIVE MergeLeft(_, _)
MergeLeft(left, right) ==
    IF left = <<>> THEN <<>>
    ELSE LET l == Head(left)
             hits == SelectSeq(right, LAMBDA r : r.email = l.email)
             rows == IF hits = <<>>
                     THEN <<[f \in DOMAIN l \cup {"avg_gap_days"} |->
                               IF f = "avg_gap_days" THEN NaNMean ELSE l[f]]>>
                     ELSE [j \in DOMAIN hits |->
                             [f \in DOMAIN l \cup {"avg_gap_days"} |->
                               IF f = "avg_gap_days" THEN hits[j].avg_gap_days
                               ELSE l[f]]]
         IN rows \o MergeLeft(Tail(left), right)

\* (mutant) the fillna(0) line left out
FillNaSkipped(rows) == rows

\* customer_agg['avg_gap_days'].fillna(0)
FillNa0(rows) ==
    [i \in DOMAIN rows |->
        IF rows[i].avg_gap_days = NaNMean
        THEN [rows[i] EXCEPT !.avg_gap_days = [num |-> 0, den |-> 1]]
        ELSE rows[i]]

create_customer_features(t) ==
    FillNa0(MergeLeft(CustomerAgg(t), OrderDatesTable(t)))

\* The caller builds the order table, one row at a time.
AggAddRow ==
    /\ pc = "agg_input"
    /\ NRows(df) < MaxRows
    /\ \E r \in OrderRows : df' = df (+) SetToBag({r})
    /\ UNCHANGED <<pc, args, out>>
    /\ AppUnchanged

AggCall ==
    /\ pc = "agg_input"
    /\ out' = create_customer_features(df)
    /\ pc' = "agg_done"
    /\ UNCHANGED <<df, args>>
    /\ AppUnchanged

AggInit ==
    /\ pc = "agg_input" /\ df = EmptyBag /\ args = <<>> /\ out = <<>>
    /\ AppIdle

AggNext == AggAddRow \/ AggCall

SpecAgg == AggInit /\ [][AggNext]_vars

\* ------------------------------------------------- properties: aggregator

\* What the input says about one customer.
RowsOf(e) == {r \in DOMAIN df : r.email = e}

OrdersOf(e) == {r.id : r \in RowsOf(e)}

DatesOfOrder(e, o) ==
    {r.order_date : r \in {x \in RowsOf(e) : x.id = o}} \ {NaT}

\* every order of the customer carries exactly one date, on all its rows
Dated(e) ==
    \A o \in OrdersOf(e) :
        /\ Cardinality(DatesOfOrder(e, o)) = 1
        /\ \A r \in RowsOf(e) : r.id = o => r.order_date # NaT

OrderDatesOf(e) == UNION {DatesOfOrder(e, o) : o \in OrdersOf(e)}

\* d2 - d1 + d3 - d2 + ... over a set of dates taken in ascending order
RECURSIVE SumGaps(_)
SumGaps(ds) ==
    IF Cardinality(ds) < 2 THEN 0
    ELSE LET m == SetMin(ds)
         IN (SetMin(ds \ {m}) - m) + SumGaps(ds \ {m})

\* C2: a customer with k >= 2 orders on dates d1 < ... < dk has avg_gap_days
\* equal to the mean of the k-1 consecutive differences, whatever the number
\* of rows each order occupies.
C2_GapIsMeanOfOrderGaps ==
    pc = "agg_done" =>
        \A i \in DOMAIN out :
            LET e == out[i].email
                k == Cardinality(OrdersOf(e))
            IN (k >= 2 /\ Dated(e) /\ Cardinality(OrderDatesOf(e)) = k) =>
                  /\ out[i].avg_gap_days.den > 0
                  /\ out[i].avg_gap_days.num * (k - 1)
                        = SumGaps(OrderDatesOf(e)) * out[i].avg_gap_days.den

\* C3: the output has exactly one row per customer identity of the input
\* (a missing identity is no identity): none missing, none twice, none new.
C3_OneRowPerCustomer ==
    pc = "agg_done" =>
        LET ids == {r.email : r \in DOMAIN df} \ {NoText}
        IN /\ {out[i].email : i \in DOMAIN out} = ids
           /\ Len(out) = Cardinality(ids)

\* C3 witness: two customers, one of them with a single row, so that its gap
\* computation yields no value.
C3_Witness ==
    /\ pc = "agg_done"
    /\ Len(out) = 2
    /\ \E i \in DOMAIN out : Cardinality(RowsOf(out[i].email)) = 1
                             /\ df[CHOOSE r \in RowsOf(out[i].email) : TRUE] = 1

\* C7: n_discounts is the number of the customer's orders with a discount,
\* n_orders the number of its orders, so n_discounts <= n_orders.
C7_DiscountsCountOrders ==
    pc = "agg_done" =>
        \A i \in DOMAIN out :
            LET e == out[i].email
                discounted == {r.id : r \in {x \in RowsOf(e) :
                                                x.discount_amount > 0}}
            IN /\ out[i].n_orders = Cardinality(OrdersOf(e))
               /\ out[i].n_discounts = Cardinality(discounted)
               /\ out[i].n_discounts <= out[i].n_orders

\* C8: a customer with exactly one order (its rows carrying at most one
\* date) has a row, and avg_gap_days is the number 0 there, never missing.
OneOrder(e) ==
    /\ Cardinality(OrdersOf(e)) = 1
    /\ Cardinality(OrderDatesOf(e)) <= 1

C8_SingleOrderGapZero ==
    pc = "agg_done" =>
        /\ \A e \in {r.email : r \in DOMAIN df} \ {NoText} :
               OneOrder(e) => \E i \in DOMAIN out : out[i].email = e
        /\ \A i \in DOMAIN out :
               OneOrder(out[i].email) =>
                   /\ out[i].avg_gap_days # NaNMean
                   /\ out[i].avg_gap_days.den > 0
                   /\ out[i].avg_gap_days.num = 0

\* C8 witness: one single-order customer on one row and another whose one
\* order occupies two rows.
C8_Witness ==
    /\ pc = "agg_done"
    /\ \E i, j \in DOMAIN out :
          /\ OneOrder(out[i].email) /\ OneOrder(out[j].email)
          /\ NRows(Group(df, out[i].email)) = 1
          /\ NRows(Group(df, out[j].email)) = 2
          /\ OrderDatesOf(out[j].email) # {}
          /\ out[i].avg_gap_days.num = 0 /\ out[j].avg_gap_days.num = 0

\* ------------------------------------------------------------------------
\* create_churn_label
\* ------------------------------------------------------------------------

Times == 0..MaxTime                      \* timestamps, in ticks

CustomerRows == [last_purchase : Times \cup {NaT}]

ChurnArgs ==
    [given : {TRUE}, observation_date : Times, churn_days : 0..MaxChurnDays]
    \cup
    [given : {FALSE}, observation_date : {NaT}, churn_days : 0..MaxChurnDays]

\* df[last_purchase_col].max(): missing dates skipped, NaT when none is left
ColumnMax(t) ==
    LET ds == {r.last_purchase : r \in DOMAIN t} \ {NaT}
    IN IF ds = {} THEN NaT ELSE SetMax(ds)

\* (observation_date - last_purchase).dt.days: the whole days of the
\* difference, rounded towards minus infinity; missing when an operand is
RecencyDays(obs, last) ==
    IF obs = NaT \/ last = NaT THEN NaN
    ELSE (obs - last) \div TicksPerDay

\* (mutant) the threshold excluded
ChurnLabelStrict(recency, churn_days) ==
    IF recency # NaN /\ recency > churn_days THEN 1 ELSE 0

\* (df['recency_days'] >= churn_days).astype(int): a missing recency
\* compares False
ChurnLabel(recency, churn_days) ==
    IF recency # NaN /\ recency >= churn_days THEN 1 ELSE 0

create_churn_label(t, a) ==
    LET observation_date ==
            IF a.given THEN a.observation_date ELSE ColumnMax(t)
        Labeled(r) ==
            LET recency == RecencyDays(observation_date, r.last_purchase)
            IN [last_purchase |-> r.last_purchase,
                recency_days |-> recency,
                churn_label |-> ChurnLabel(recency, a.churn_days)]
    IN [x \in {Labeled(r) : r \in DOMAIN t} |->
           t[CHOOSE r \in DOMAIN t : Labeled(r) = x]]

ChurnAddRow ==
    /\ pc = "churn_input"
    /\ NRows(df) < MaxCustomers
    /\ \E r \in CustomerRows : df' = df (+) SetToBag({r})
    /\ UNCHANGED <<pc, args, out>>
    /\ AppUnchanged

ChurnCall ==
    /\ pc = "churn_input"
    /\ \E a \in ChurnArgs :
          /\ args' = a
          /\ out' = create_churn_label(df, a)
    /\ pc' = "churn_done"
    /\ UNCHANGED df
    /\ AppUnchanged

ChurnInit ==
    /\ pc = "churn_input" /\ df = EmptyBag /\ args = <<>> /\ out = <<>>
    /\ AppIdle

ChurnNext == ChurnAddRow \/ ChurnCall

SpecChurn == ChurnInit /\ [][ChurnNext]_vars

\* ---------------------------------------------- properties: churn labeler

\* C1: each customer row gets recency_days = the whole days of (observation
\* date - last purchase) and churn_label = 1 exactly when recency_days >=
\* churn_days; without an observation date the latest last purchase of the
\* table is used.
C1_ChurnLabel ==
    pc = "churn_done" =>
        LET dates == {r.last_purchase : r \in DOMAIN df} \ {NaT}
            IsObs(o) == IF args.given THEN o = args.observation_date
                        ELSE IF dates = {} THEN o = NaT
                        ELSE o \in dates /\ \A d \in dates : d <= o
        IN /\ {x.last_purchase : x \in DOMAIN out}
                 = {r.last_purchase : r \in DOMAIN df}
           /\ NRows(out) = NRows(df)
           /\ \A x \in DOMAIN out : \E o \in Times \cup {NaT} :
                 /\ IsObs(o)
                 /\ IF o = NaT \/ x.last_purchase = NaT
                    THEN x.recency_days = NaN /\ x.churn_label = 0
                    ELSE /\ x.recency_days * TicksPerDay <= o - x.last_purchase
                         /\ o - x.last_purchase
                               < (x.recency_days + 1) * TicksPerDay
                         /\ x.churn_label \in {0, 1}
                         /\ x.churn_label = 1
                               <=> x.recency_days >= args.churn_days

\* C1 witness: the default observation date, one customer exactly churn_days
\* stale (labeled 1) and one a day less (labeled 0), the latter by a
\* difference that is no whole number of days.
C1_Witness ==
    /\ pc = "churn_done"
    /\ ~args.given
    /\ args.churn_days >= 1
    /\ \E x, y \in DOMAIN out :
          /\ x.recency_days = args.churn_days /\ x.churn_label = 1
          /\ y.recency_days = args.churn_days - 1 /\ y.churn_label = 0
          /\ (ColumnMax(df) - y.last_purchase) % TicksPerDay # 0

\* ------------------------------------------------------------------------
\* calculate_rfm_segments
\* ------------------------------------------------------------------------

Recencies == {0, 1, 3}

Frequencies == {1, 2, 3}

Monetaries == {10, 20, 40}

RfmRows ==
    [recency_days : Recencies \cup {NaN},
     frequency : Frequencies,
     monetary : Monetaries]

\* The present values of one column, ascending, one entry per row.
RECURSIVE SortedColumn(_, _)
SortedColumn(t, c) ==
    IF DOMAIN t = {} THEN <<>>
    ELSE LET present == {r \in DOMAIN t : r[c] # NaN}
         IN IF present = {} THEN <<>>
            ELSE LET r == CHOOSE x \in present :
                              \A y \in present : x[c] <= y[c]
                     rest == IF t[r] = 1 THEN [x \in DOMAIN t \ {r} |-> t[x]]
                             ELSE [t EXCEPT ![r] = @ - 1]
                 IN <<r[c]>> \o SortedColumn(rest, c)

\* Series.quantile(linspace(0, 1, q + 1)) over the present values xs, with
\* linear interpolation: edge i lies at position (n-1)*i/q of xs.  Edges are
\* kept exact, multiplied by q.  No present value: every edge is missing.
QuantileEdges(xs, q) ==
    LET n == Len(xs)
    IN [k \in 1..(q + 1) |->
          IF n = 0 THEN NaN
          ELSE LET i == k - 1
                   lo == ((n - 1) * i) \div q
                   fr == ((n - 1) * i) % q
               IN IF fr = 0 THEN q * xs[lo + 1]
                  ELSE q * xs[lo + 1] + fr * (xs[lo + 2] - xs[lo + 1])]

\* algos.unique(bins): first occurrences, in order
RECURSIVE Unique(_)
Unique(s) ==
    IF s = <<>> THEN <<>>
    ELSE LET init == Unique(SubSeq(s, 1, Len(s) - 1))
             last == s[Len(s)]
         IN IF \E j \in DOMAIN init : init[j] = last THEN init
            ELSE Append(init, last)

\* _bins_to_cuts, duplicates='drop': duplicate edges are dropped unless
\* there are just two edges
DropDuplicates(bins) ==
    IF Len(Unique(bins)) < Len(bins) /\ Len(bins) # 2 THEN Unique(bins)
    ELSE bins

\* "Bin labels must be one fewer than the number of bin edges": the check
\* _bins_to_cuts makes of the labels it was given, after the drop
LabelsFit(bins, labels) == Len(labels) = Len(bins) - 1

\* bins.searchsorted(x, side='left') with include_lowest=True
BinId(bins, x, q) ==
    IF bins[1] # NaN /\ q * x = bins[1] THEN 1
    ELSE Cardinality({j \in DOMAIN bins : bins[j] # NaN /\ bins[j] < q * x})

\* the label of one value: missing for a missing value and for a value
\* outside the bins
CutLabel(bins, labels, x, q) ==
    IF x = NaN THEN NaN
    ELSE LET id == BinId(bins, x, q)
         IN IF id = 0 \/ id = Len(bins) THEN NaN ELSE labels[id]

\* (mutant) recency labelled like the other two dimensions
RecencyLabelsAscending(n) == [k \in 1..n |-> k]

\* range(n_segments, 0, -1)
RecencyLabels(n) == [k \in 1..n |-> n - k + 1]

\* range(1, n_segments + 1)
ValueLabels(n) == [k \in 1..n |-> k]

\* the bins pd.qcut(df[c], q=n, ..., duplicates='drop') cuts column c by
QcutBins(t, c, n) == DropDuplicates(QuantileEdges(SortedColumn(t, c), n))

\* pd.qcut raises ValueError for this column
QcutRaises(t, c, n, labels) == ~LabelsFit(QcutBins(t, c, n), labels)

\* .astype(str) of a score
ScoreStr(v) == IF v = NaN THEN "nan" ELSE ToString(v)

\* (mutant) the scores joined in the order F, R, M
JoinScoresFRM(r, f, m) == ScoreStr(f) \o ScoreStr(r) \o ScoreStr(m)

\* df['R_score'].astype(str) + df['F_score'].astype(str) + ...
JoinScores(r, f, m) == ScoreStr(r) \o ScoreStr(f) \o ScoreStr(m)

RfmRaises(t, n) ==
    \/ QcutRaises(t, "recency_days", n, RecencyLabels(n))
    \/ QcutRaises(t, "frequency", n, ValueLabels(n))
    \/ QcutRaises(t, "monetary", n, ValueLabels(n))

calculate_rfm_segments(t, n) ==
    LET r_bins == QcutBins(t, "recency_days", n)
        f_bins == QcutBins(t, "frequency", n)
        m_bins == QcutBins(t, "monetary", n)
        Scored(r) ==
            LET R == CutLabel(r_bins, RecencyLabels(n), r.recency_days, n)
                F == CutLabel(f_bins, ValueLabels(n), r.frequency, n)
                M == CutLabel(m_bins, ValueLabels(n), r.monetary, n)
            IN [recency_days |-> r.recency_days,
                frequency |-> r.frequency,
                monetary |-> r.monetary,
                R_score |-> R, F_score |-> F, M_score |-> M,
                RFM_score |-> JoinScores(R, F, M)]
    IN [x \in {Scored(r) : r \in DOMAIN t} |->
           t[CHOOSE r \in DOMAIN t : Scored(r) = x]]

RfmAddRow ==
    /\ pc = "rfm_input"
    /\ NRows(df) < MaxCustomers
    /\ \E r \in RfmRows : df' = df (+) SetToBag({r})
    /\ UNCHANGED <<pc, args, out>>
    /\ AppUnchanged

\* the call returns the segmented table
RfmCall ==
    /\ pc = "rfm_input"
    /\ \E n \in 1..MaxSegments :
          /\ ~RfmRaises(df, n)
          /\ args' = [n_segments |-> n]
          /\ out' = calculate_rfm_segments(df, n)
    /\ pc' = "rfm_done"
    /\ UNCHANGED df
    /\ AppUnchanged

\* the call ends in the ValueError of pd.qcut and returns nothing
RfmCallRaises ==
    /\ pc = "rfm_input"
    /\ \E n \in 1..MaxSegments :
          /\ RfmRaises(df, n)
          /\ args' = [n_segments |-> n]
    /\ pc' = "rfm_raised"
    /\ UNCHANGED <<df, out>>
    /\ AppUnchanged

RfmInit ==
    /\ pc = "rfm_input" /\ df = EmptyBag /\ args = <<>> /\ out = <<>>
    /\ AppIdle

RfmNext == RfmAddRow \/ RfmCall \/ RfmCallRaises

SpecRfm == RfmInit /\ [][RfmNext]_vars

\* ------------------------------------------------ properties: segmenter

RfmEnded == pc \in {"rfm_done", "rfm_raised"}

\* A dimension is degenerate when its values are too few to form n_segments
\* distinct quantile bins: two of its bin edges coincide.
Degenerate(c) ==
    LET edges == QuantileEdges(SortedColumn(df, c), args.n_segments)
    IN \E i, j \in DOMAIN edges : i < j /\ edges[i] = edges[j]

\* the scores the output gives in one dimension
ScoresUsed(f) == {x[f] : x \in DOMAIN out} \ {NaN}

\* C4: a call on a table with a degenerate dimension completes, with ranks
\* from fewer than n_segments buckets in that dimension; it never raises.
C4_DegenerateNeverRaises ==
    (RfmEnded /\ NRows(df) > 0
        /\ \E c \in {"recency_days", "frequency", "monetary"} : Degenerate(c))
    => /\ pc = "rfm_done"
       /\ Degenerate("recency_days") /\ args.n_segments > 1
             => Cardinality(ScoresUsed("R_score")) < args.n_segments
       /\ Degenerate("frequency") /\ args.n_segments > 1
             => Cardinality(ScoresUsed("F_score")) < args.n_segments
       /\ Degenerate("monetary") /\ args.n_segments > 1
             => Cardinality(ScoresUsed("M_score")) < args.n_segments

\* C5 as stated: in every output row the three scores are integers in
\* 1..n_segments and RFM_score is their three digits in the order R, F, M.
C5_EveryRowThreeDigits ==
    pc = "rfm_done" =>
        \A x \in DOMAIN out :
            /\ x.R_score \in 1..args.n_segments
            /\ x.F_score \in 1..args.n_segments
            /\ x.M_score \in 1..args.n_segments
            /\ x.RFM_score
                  = ToString(x.R_score) \o ToString(x.F_score)
                       \o ToString(x.M_score)
            /\ Len(x.RFM_score) = 3

\* C5 amended: the same, for every output row whose recency, frequency and
\* monetary values are all present.
C5_PresentRowsThreeDigits ==
    pc = "rfm_done" =>
        \A x \in DOMAIN out :
            (x.recency_days # NaN /\ x.frequency # NaN /\ x.monetary # NaN) =>
                /\ x.R_score \in 1..args.n_segments
                /\ x.F_score \in 1..args.n_segments
                /\ x.M_score \in 1..args.n_segments
                /\ x.RFM_score
                      = ToString(x.R_score) \o ToString(x.F_score)
                           \o ToString(x.M_score)
                /\ Len(x.RFM_score) = 3

\* C5 witness: three segments, and a row whose three ranks all differ.
C5_Witness ==
    /\ pc = "rfm_done"
    /\ args.n_segments = 3
    /\ \E x \in DOMAIN out :
          /\ x.recency_days # NaN
          /\ Cardinality({x.R_score, x.F_score, x.M_score}) = 3
          /\ Len(x.RFM_score) = 3

\* C6: F and M ranks never decrease with the value, R ranks never increase
\* with recency; the lowest recency gets rank n_segments and the highest
\* rank 1, the lowest frequency and monetary rank 1 and the highest rank
\* n_segments.
C6_RanksMonotone ==
    pc = "rfm_done" =>
        /\ \A a, b \in DOMAIN out :
              /\ a.frequency <= b.frequency => a.F_score <= b.F_score
              /\ a.monetary <= b.monetary => a.M_score <= b.M_score
              /\ (a.recency_days # NaN /\ b.recency_days # NaN
                    /\ a.recency_days <= b.recency_days)
                 => (a.R_score # NaN /\ b.R_score # NaN
                       /\ a.R_score >= b.R_score)
        /\ \A a \in DOMAIN out :
              LET Lowest(c) == \A b \in DOMAIN out : b[c] = NaN \/ a[c] <= b[c]
                  Highest(c) == \A b \in DOMAIN out : b[c] = NaN \/ b[c] <= a[c]
              IN /\ a.recency_days # NaN /\ Lowest("recency_days")
                    /\ ~Highest("recency_days")
                       => a.R_score = args.n_segments
                 /\ a.recency_days # NaN /\ Highest("recency_days")
                    /\ ~Lowest("recency_days")
                       => a.R_score = 1
                 /\ Lowest("frequency") /\ ~Highest("frequency")
                       => a.F_score = 1
                 /\ Highest("frequency") /\ ~Lowest("frequency")
                       => a.F_score = args.n_segments
                 /\ Lowest("monetary") /\ ~Highest("monetary")
                       => a.M_score = 1
                 /\ Highest("monetary") /\ ~Lowest("monetary")
                       => a.M_score = args.n_segments

\* C6 witness: three customers in three segments, the most recent one ranked
\* 3 and the least recent one ranked 1.
C6_Witness ==
    /\ pc = "rfm_done"
    /\ args.n_segments = 3
    /\ \E a, b, c \in DOMAIN out :
          /\ a.recency_days # NaN /\ b.recency_days # NaN /\ c.recency_days # NaN
          /\ a.recency_days < b.recency_days /\ b.recency_days < c.recency_days
          /\ a.R_score = 3 /\ b.R_score = 2 /\ c.R_score = 1
          /\ a.F_score < c.F_score

\* ------------------------------------------------------------------------
\* get_top_products
\* ------------------------------------------------------------------------

Products == {"ball", "paddle", "net"}

Quantities == {-1, 1, 2}

ProductRows == [lineitem_name : Products, quantity : Quantities]

Aggregations == {"sum", "mean", "count"}

TopArgs == [aggregation : Aggregations, top_n : 0..MaxTopN]

\* the sum of the metric over the rows of a group
RECURSIVE MetricSum(_)
MetricSum(g) ==
    IF DOMAIN g = {} THEN 0
    ELSE LET r == CHOOSE x \in DOMAIN g : TRUE
             rest == [x \in DOMAIN g \ {r} |-> g[x]]
         IN r.quantity * g[r] + MetricSum(rest)

\* .agg(agg_func[aggregation]) over one group, as an exact fraction
Aggregate(g, aggregation) ==
    CASE aggregation = "sum"   -> [num |-> MetricSum(g), den |-> 1]
      [] aggregation = "mean"  -> [num |-> MetricSum(g), den |-> NRows(g)]
      [] aggregation = "count" -> [num |-> NRows(g), den |-> 1]

\* a <= b for two fractions with positive denominators
FracLeq(a, b) == a.num * b.den <= b.num * a.den

\* the rows of one product's group
ProductGroup(t, p) == [r \in {x \in DOMAIN t : x.lineitem_name = p} |-> t[r]]

\* df.groupby(product_col)[metric_col].agg(...): product -> aggregated value
GroupAgg(t, aggregation) ==
    [p \in {r.lineitem_name : r \in DOMAIN t} |->
        Aggregate(ProductGroup(t, p), aggregation)]

\* (mutant) ascending=True
IsSortedAscending(s) ==
    \A i, j \in DOMAIN s : i < j => FracLeq(s[i][2], s[j][2])

\* .sort_values(ascending=False): the value never rises down the rows; the
\* order of equal values is the sort algorithm's
IsSortedDescending(s) ==
    \A i, j \in DOMAIN s : i < j => FracLeq(s[j][2], s[i][2])

\* every order .sort_values(ascending=False) can leave the groups in
SortedOrders(agg) ==
    {s \in [1..Cardinality(DOMAIN agg) -> {<<p, agg[p]>> : p \in DOMAIN agg}] :
        /\ \A i, j \in DOMAIN s : i # j => s[i][1] # s[j][1]
        /\ IsSortedDescending(s)}

\* .head(top_n)
Head_n(s, n) == SubSeq(s, 1, Min(n, Len(s)))

\* f'{metric_col}_{aggregation}'
ColumnName(metric_col, aggregation) == metric_col \o "_" \o aggregation

\* the results get_top_products can return
get_top_products(t, a) ==
    {[columns |-> <<"lineitem_name", ColumnName("quantity", a.aggregation)>>,
      rows |-> Head_n(s, a.top_n)] :
         s \in SortedOrders(GroupAgg(t, a.aggregation))}

TopAddRow ==
    /\ pc = "top_input"
    /\ NRows(df) < MaxRows
    /\ \E r \in ProductRows : df' = df (+) SetToBag({r})
    /\ UNCHANGED <<pc, args, out>>
    /\ AppUnchanged

TopCall ==
    /\ pc = "top_input"
    /\ \E a \in TopArgs :
          /\ args' = a
          /\ out' \in get_top_products(df, a)
    /\ pc' = "top_done"
    /\ UNCHANGED df
    /\ AppUnchanged

TopInit ==
    /\ pc = "top_input" /\ df = EmptyBag /\ args = <<>>
    /\ out = [columns |-> <<>>, rows |-> <<>>]
    /\ AppIdle

TopNext == TopAddRow \/ TopCall

SpecTop == TopInit /\ [][TopNext]_vars

\* ----------------------------------------------- properties: top products

\* the metric of one product over all its input rows, as the pair
\* <<total, number of rows>>
ProductTotal(p) ==
    LET rows == {r \in DOMAIN df : r.lineitem_name = p}
        F[S \in SUBSET rows] ==
            IF S = {} THEN <<0, 0>>
            ELSE LET r == CHOOSE x \in S : TRUE
                 IN <<F[S \ {r}][1] + r.quantity * df[r], F[S \ {r}][2] + df[r]>>
    IN F[rows]

\* product p's metric under the call's aggregation, as a fraction
Expected(p) ==
    LET tot == ProductTotal(p)
    IN CASE args.aggregation = "sum"   -> [num |-> tot[1], den |-> 1]
         [] args.aggregation = "mean"  -> [num |-> tot[1], den |-> tot[2]]
         [] args.aggregation = "count" -> [num |-> tot[2], den |-> 1]

\* C9: at most top_n rows, one row per product holding that product's
\* aggregated metric, sorted descending, no left-out product above a
\* returned one, and the value column named <metric_col>_<aggregation>.
C9_TopProducts ==
    pc = "top_done" =>
        LET rows == out.rows
            all == {r.lineitem_name : r \in DOMAIN df}
            returned == {rows[i][1] : i \in DOMAIN rows}
        IN /\ Len(rows) <= args.top_n
           /\ Len(rows) = Min(args.top_n, Cardinality(all))
           /\ returned \subseteq all
           /\ Cardinality(returned) = Len(rows)
           /\ \A i \in DOMAIN rows :
                 /\ rows[i][2].den > 0
                 /\ rows[i][2].num * Expected(rows[i][1]).den
                       = Expected(rows[i][1]).num * rows[i][2].den
           /\ \A i, j \in DOMAIN rows :
                 i < j => rows[j][2].num * rows[i][2].den
                             <= rows[i][2].num * rows[j][2].den
           /\ \A p \in all \ returned : \A i \in DOMAIN rows :
                 Expected(p).num * rows[i][2].den
                    <= rows[i][2].num * Expected(p).den
           /\ out.columns[2]
                 = CASE args.aggregation = "sum"   -> "quantity_sum"
                     [] args.aggregation = "mean"  -> "quantity_mean"
                     [] args.aggregation = "count" -> "quantity_count"

\* C9 witness: three products ranked by mean, the best two returned in
\* strictly descending order and the third left out.
C9_Witness ==
    /\ pc = "top_done"
    /\ args.aggregation = "mean" /\ args.top_n = 2
    /\ Len(out.rows) = 2
    /\ Cardinality({r.lineitem_name : r \in DOMAIN df}) = 3
    /\ out.rows[1][2].num * out.rows[2][2].den
          > out.rows[2][2].num * out.rows[1][2].den

\* ------------------------------------------------------------------------
\* The dashboard: one run of the script after another (src/app.py)
\* ------------------------------------------------------------------------

FEATURE_COLS ==
    <<"avg_spend", "total_spend", "avg_items", "marketing_optin",
      "n_discounts", "avg_discount", "frequency", "avg_gap_days">>

\* possible_paths of get_model_path and of get_data_path, by position
Candidates == 1..3

Artifacts == {"model", "data"}

\* get_model_path / get_data_path: the first candidate that exists, else the
\* first candidate
get_path(exists) ==
    IF \E i \in Candidates : exists[i]
    THEN CHOOSE i \in Candidates :
            exists[i] /\ \A j \in Candidates : exists[j] => i <= j
    ELSE 1

get_model_path == get_path(fs.model)

get_data_path == get_path(fs.data)

\* the except FileNotFoundError branch of load_model and of load_data
NotFoundMessages(a) == <<"error:" \o a \o " file not found", "info:" \o a>>

\* (mutant) the run stops only when both loads failed
NothingLoaded(p, d) == p = "None" /\ d = "None"

\* if pipe is None or data is None
LoadFailed(p, d) == p = "None" \/ d = "None"

\* A file appears or disappears at one candidate path, at any moment.
FsChange ==
    /\ \E a \in Artifacts, i \in Candidates :
          fs' = [fs EXCEPT ![a][i] = ~@]
    /\ UNCHANGED <<pc, df, args, out, cache, path, pipe, data, screen, col,
                   feature_stats, inputs, prob_churn, not_found>>

\* The script starts (first visit, or a rerun after a widget changed).
StartRun ==
    /\ pc \in {"idle", "done", "stopped"}
    /\ pc' = "load_model"
    /\ screen' = <<"title", "markdown">>
    /\ pipe' = "None" /\ data' = "None" /\ path' = 0 /\ col' = 0
    /\ feature_stats' = {} /\ inputs' = {}
    /\ prob_churn' = "unset" /\ not_found' = {}
    /\ UNCHANGED <<df, args, out, fs, cache>>

\* pipe = load_model(), answered by st.cache_resource: the cached value is
\* returned and the elements the cached call showed are shown again
LoadModelCached ==
    /\ pc = "load_model"
    /\ cache.model # "unset"
    /\ pipe' = cache.model
    /\ screen' = IF cache.model = "None"
                 THEN screen \o NotFoundMessages("model") ELSE screen
    /\ pc' = "load_data"
    /\ UNCHANGED <<df, args, out, fs, cache, path, data, col, feature_stats,
                   inputs, prob_churn, not_found>>

\* load_model: path = get_model_path()
LoadModelPath ==
    /\ pc = "load_model"
    /\ cache.model = "unset"
    /\ path' = get_model_path
    /\ pc' = "joblib_load"
    /\ UNCHANGED <<df, args, out, fs, cache, pipe, data, screen, col,
                   feature_stats, inputs, prob_churn, not_found>>

\* load_model: return joblib.load(path)
LoadModelOk ==
    /\ pc = "joblib_load"
    /\ fs.model[path]
    /\ pipe' = "pipeline"
    /\ cache' = [cache EXCEPT !.model = "pipeline"]
    /\ pc' = "load_data"
    /\ UNCHANGED <<df, args, out, fs, path, data, screen, col, feature_stats,
                   inputs, prob_churn, not_found>>

\* load_model: except FileNotFoundError
LoadModelNotFound ==
    /\ pc = "joblib_load"
    /\ ~fs.model[path]
    /\ screen' = screen \o NotFoundMessages("model")
    /\ pipe' = "None"
    /\ cache' = [cache EXCEPT !.model = "None"]
    /\ not_found' = not_found \cup {"model"}
    /\ pc' = "load_data"
    /\ UNCHANGED <<df, args, out, fs, path, data, col, feature_stats, inputs,
                   prob_churn>>

\* data = load_data(), answered by st.cache_data
LoadDataCached ==
    /\ pc = "load_data"
    /\ cache.data # "unset"
    /\ data' = cache.data
    /\ screen' = IF cache.data = "None"
                 THEN screen \o NotFoundMessages("data") ELSE screen
    /\ pc' = "check"
    /\ UNCHANGED <<df, args, out, fs, cache, path, pipe, col, feature_stats,
                   inputs, prob_churn, not_found>>

\* load_data: path = get_data_path()
LoadDataPath ==
    /\ pc = "load_data"
    /\ cache.data = "unset"
    /\ path' = get_data_path
    /\ pc' = "read_csv"
    /\ UNCHANGED <<df, args, out, fs, cache, pipe, data, screen, col,
                   feature_stats, inputs, prob_churn, not_found>>

\* load_data: return pd.read_csv(path)
LoadDataOk ==
    /\ pc = "read_csv"
    /\ fs.data[path]
    /\ data' = "table"
    /\ cache' = [cache EXCEPT !.data = "table"]
    /\ pc' = "check"
    /\ UNCHANGED <<df, args, out, fs, path, pipe, screen, col, feature_stats,
                   inputs, prob_churn, not_found>>

\* load_data: except FileNotFoundError
LoadDataNotFound ==
    /\ pc = "read_csv"
    /\ ~fs.data[path]
    /\ screen' = screen \o NotFoundMessages("data")
    /\ data' = "None"
    /\ cache' = [cache EXCEPT !.data = "None"]
    /\ not_found' = not_found \cup {"data"}
    /\ pc' = "check"
    /\ UNCHANGED <<df, args, out, fs, path, pipe, col, feature_stats, inputs,
                   prob_churn>>

\* if pipe is None or data is None: st.warning(...); st.stop()
CheckStop ==
    /\ pc = "check"
    /\ LoadFailed(pipe, data)
    /\ screen' = Append(screen, "warning")
    /\ pc' = "stopped"
    /\ UNCHANGED <<df, args, out, fs, cache, path, pipe, data, col,
                   feature_stats, inputs, prob_churn, not_found>>

CheckPass ==
    /\ pc = "check"
    /\ ~LoadFailed(pipe, data)
    /\ pc' = "stats"
    /\ col' = 1
    /\ UNCHANGED <<df, args, out, fs, cache, path, pipe, data, screen,
                   feature_stats, inputs, prob_churn, not_found>>

\* for col in FEATURE_COLS: feature_stats[col] = {...}, then the sidebar's
\* header and markdown
ComputeStats ==
    /\ pc = "stats"
    /\ feature_stats' = feature_stats \cup {FEATURE_COLS[col]}
    /\ IF col < Len(FEATURE_COLS)
       THEN col' = col + 1 /\ UNCHANGED <<pc, screen>>
       ELSE /\ col' = 1
            /\ pc' = "widgets"
            /\ screen' = screen \o <<"sidebar.header", "sidebar.markdown">>
    /\ UNCHANGED <<df, args, out, fs, cache, path, pipe, data, inputs,
                   prob_churn, not_found>>

\* for col in FEATURE_COLS: a selectbox for marketing_optin, a slider for
\* every other column; inputs[col] = val
RenderWidget ==
    /\ pc = "widgets"
    /\ screen' = Append(screen,
                        IF FEATURE_COLS[col] = "marketing_optin"
                        THEN "selectbox" ELSE "slider")
    /\ inputs' = inputs \cup {FEATURE_COLS[col]}
    /\ IF col < Len(FEATURE_COLS)
       THEN col' = col + 1 /\ UNCHANGED pc
       ELSE col' = 0 /\ pc' = "predict"
    /\ UNCHANGED <<df, args, out, fs, cache, path, pipe, data, feature_stats,
                   prob_churn, not_found>>

\* prob_churn = float(pipe.predict_proba(input_df)[0, 1]), on either side of
\* the threshold, and the display of the result
Predict ==
    /\ pc = "predict"
    /\ \E p \in {"below", "at_or_above"} :
          /\ prob_churn' = p
          /\ screen' = screen \o
                <<"subheader", "metric",
                  IF p = "at_or_above" THEN "error:churn" ELSE "success:stay",
                  "write", "expander", "expander", "markdown", "caption">>
    /\ pc' = "done"
    /\ UNCHANGED <<df, args, out, fs, cache, path, pipe, data, col,
                   feature_stats, inputs, not_found>>

AppInit ==
    /\ pc = "idle"
    /\ df = EmptyBag /\ args = <<>> /\ out = <<>>
    /\ fs \in [Artifacts -> [Candidates -> BOOLEAN]]
    /\ cache = [model |-> "unset", data |-> "unset"]
    /\ path = 0
    /\ pipe = "None" /\ data = "None"
    /\ screen = <<>> /\ col = 0
    /\ feature_stats = {} /\ inputs = {}
    /\ prob_churn = "unset" /\ not_found = {}

AppNext ==
    \/ FsChange \/ StartRun
    \/ LoadModelCached \/ LoadModelPath \/ LoadModelOk \/ LoadModelNotFound
    \/ LoadDataCached \/ LoadDataPath \/ LoadDataOk \/ LoadDataNotFound
    \/ CheckStop \/ CheckPass
    \/ ComputeStats \/ RenderWidget \/ Predict

SpecApp == AppInit /\ [][AppNext]_vars

\* ------------------------------------------------- properties: dashboard

Shown(e) == \E i \in DOMAIN screen : screen[i] = e

Widgets == {"selectbox", "slider"}

AfterLoads == pc \in {"check", "stopped", "stats", "widgets", "predict", "done"}

\* C10: an artifact missing at load time is reported with its error and its
\* remediation hint, and the run stops before any slider range, input widget
\* or prediction; a prediction is made only with both artifacts loaded.
C10_MissingArtifactHalts ==
    /\ \A a \in not_found :
          /\ Shown(NotFoundMessages(a)[1]) /\ Shown(NotFoundMessages(a)[2])
          /\ feature_stats = {} /\ inputs = {} /\ prob_churn = "unset"
          /\ \A w \in Widgets : ~Shown(w)
          /\ pc \in {"load_data", "read_csv", "check", "stopped"}
          /\ pc = "stopped" => screen[Len(screen)] = "warning"
    /\ (AfterLoads /\ (pipe = "None" \/ data = "None")) =>
          /\ pc \in {"check", "stopped"}
          /\ feature_stats = {} /\ inputs = {} /\ prob_churn = "unset"
          /\ \A w \in Widgets : ~Shown(w)
    /\ (feature_stats # {} \/ inputs # {} \/ prob_churn # "unset") =>
          /\ pipe = "pipeline" /\ data = "table"
          /\ cache.model = "pipeline" /\ cache.data = "table"
    /\ prob_churn # "unset" =>
          /\ feature_stats = {FEATURE_COLS[i] : i \in DOMAIN FEATURE_COLS}
          /\ inputs = feature_stats

\* C10 witness: the model file is found missing while the feature table
\* loads; the run has stopped on the warning with nothing computed.
C10_Witness ==
    /\ pc = "stopped"
    /\ not_found = {"model"}
    /\ data = "table"
    /\ Shown("error:model file not found") /\ Shown("info:model")
    /\ screen[Len(screen)] = "warning"
    /\ feature_stats = {} /\ inputs = {} /\ prob_churn = "unset"

====
